---- MODULE Spec2Model ----
(***************************************************************************)
(* Model of src/labelSelector.js: the LabelSelector constructor, its       *)
(* mutation operations, matches, covers and exportJSON.                    *)
(*                                                                         *)
(* Strings are TLA+ strings.  A JS object used as a map (_conjuncts, a     *)
(* resource's labels) is a function whose DOMAIN is the set of own keys.   *)
(* A conjunct's values is a sequence of strings; "values is undefined"     *)
(* (an expression without a values field) is the field hasValues = FALSE.  *)
(***************************************************************************)
EXTENDS Integers, Sequences, FiniteSets, TLC

(* ----------------------------- bounds --------------------------------- *)
\* most conjuncts the selector of Spec holds
MaxConjuncts == 2
\* longest values list of a conjunct in Spec and SpecCovers
MaxLen == 1
\* most conjuncts of each of the two selectors of SpecCovers
MaxCoverConjuncts == 1
\* most conjuncts of each of the two selectors of SpecSubsume
MaxSubsumeConjuncts == 2
\* longest values list of a conjunct in SpecSubsume
MaxSubsumeLen == 2

(* ----------------------------- inputs --------------------------------- *)
Keys == {"k"}
Values == {"", "a"}
LabelValues == {"", "a", "b"}
Operators == {"in", "not in", "exists", "does not exist"}

SeqsUpTo(S, n) == UNION {[1..m -> S] : m \in 0..n}

\* the (key, operator, values) arguments addConjunct is called with, values
\* of at most maxLen entries; exists and does not exist come with values []
\* or with no values at all
ConjunctArgsUpTo(maxLen) ==
    {[key |-> k, operator |-> o, values |-> v, hasValues |-> TRUE] :
        k \in Keys, o \in {"in", "not in"}, v \in SeqsUpTo(Values, maxLen)}
    \cup
    {[key |-> k, operator |-> o, values |-> <<>>, hasValues |-> h] :
        k \in Keys, o \in {"exists", "does not exist"}, h \in BOOLEAN}

ConjunctArgs == ConjunctArgsUpTo(MaxLen)

EmptyMap == [x \in {} |-> ""]
LabelMaps == UNION {[D -> LabelValues] : D \in SUBSET Keys}

\* labels that a resource with metadata carries at its top level, where
\* matches must not look
DecoyLabels == [k \in Keys |-> "b"]

\* a resource: null, {labels: L}, or {labels: DecoyLabels, metadata: {labels: L}}
NullResource ==
    [isNull |-> TRUE, labels |-> EmptyMap, hasMetadata |-> FALSE,
     metadataLabels |-> EmptyMap]
Resources ==
    {NullResource}
    \cup {[isNull |-> FALSE, labels |-> L, hasMetadata |-> FALSE,
           metadataLabels |-> EmptyMap] : L \in LabelMaps}
    \cup {[isNull |-> FALSE, labels |-> DecoyLabels, hasMetadata |-> TRUE,
           metadataLabels |-> L] : L \in LabelMaps}

(* ------------------------- the operator maps -------------------------- *)
OPERATOR_MAP ==
    [o \in {"In", "NotIn", "Exists", "DoesNotExist"} |->
        CASE o = "In" -> "in"
          [] o = "NotIn" -> "not in"
          [] o = "Exists" -> "exists"
          [] o = "DoesNotExist" -> "does not exist"]

\* REVERSE_OPERATOR_MAP with "not in" spelled as In
REVERSE_OPERATOR_MAP_NotInAsIn ==
    [o \in Operators |->
        CASE o = "in" -> "In"
          [] o = "not in" -> "In"
          [] o = "exists" -> "Exists"
          [] o = "does not exist" -> "DoesNotExist"]

REVERSE_OPERATOR_MAP ==
    [o \in Operators |->
        CASE o = "in" -> "In"
          [] o = "not in" -> "NotIn"
          [] o = "exists" -> "Exists"
          [] o = "does not exist" -> "DoesNotExist"]

(* ------------------------- ids and strings ---------------------------- *)
\* Array.prototype.join
RECURSIVE join(_, _)
join(values, sep) ==
    IF Len(values) = 0 THEN ""
    ELSE IF Len(values) = 1 THEN values[1]
    ELSE values[1] \o sep \o join(Tail(values), sep)

getIdForConjunct(conjunct) ==
    LET id == conjunct.key \o "-" \o conjunct.operator
    IN  IF conjunct.hasValues THEN id \o "-" \o join(conjunct.values, ",") ELSE id

RECURSIVE valuesString(_)
valuesString(values) ==
    IF Len(values) = 0 THEN ""
    ELSE (IF values[1] = "" THEN "\"\"" ELSE values[1])
         \o (IF Len(values) # 1 THEN ", " ELSE "")
         \o valuesString(Tail(values))

getStringForConjunct(conjunct) ==
    IF conjunct.operator = "exists" THEN conjunct.key \o " exists"
    ELSE IF conjunct.operator = "does not exist" THEN conjunct.key \o " does not exist"
    ELSE conjunct.key
         \o (IF conjunct.operator = "not in" THEN " not" ELSE "")
         \o " in (" \o valuesString(conjunct.values) \o ")"

(* --------------------------- mutation --------------------------------- *)
\* the conjunct object addConjunct builds and stores
newConjunct(args) ==
    [key |-> args.key, operator |-> args.operator, values |-> args.values,
     hasValues |-> args.hasValues,
     id |-> getIdForConjunct(args), string |-> getStringForConjunct(args)]

\* addConjunct that starts from an empty mapping: this._conjuncts = {id: conjunct}
addConjunctAlone(conjuncts, args) ==
    LET conjunct == newConjunct(args)
    IN  [i \in {conjunct.id} |-> conjunct]

\* _conjuncts after addConjunct(key, operator, values)
addConjunct(conjuncts, args) ==
    LET conjunct == newConjunct(args)
    IN  [i \in DOMAIN conjuncts \cup {conjunct.id} |->
            IF i = conjunct.id THEN conjunct ELSE conjuncts[i]]

\* _conjuncts after removeConjunct: delete this._conjuncts[id]
removeConjunct(conjuncts, id) ==
    [i \in DOMAIN conjuncts \ {id} |-> conjuncts[i]]

isEmpty(selector) == DOMAIN selector.conjuncts = {}

(* ---------------------------- matches --------------------------------- *)
\* labels[key] is truthy: an own key with a non-empty string
truthy(labels, key) == key \in DOMAIN labels /\ labels[key] # ""

\* labels[key] === ""
isEmptyString(labels, key) == key \in DOMAIN labels /\ labels[key] = ""

\* some i < values.length has label == values[i] (the loops of "in" and "not in")
someValueEquals(label, values) == \E i \in 1..Len(values) : label = values[i]

\* conjunctPasses whose "exists" case forgets the test for the empty string
conjunctPassesTruthyOnly(conjunct, labels) ==
    CASE conjunct.operator = "exists" -> truthy(labels, conjunct.key)
      [] conjunct.operator = "does not exist" ->
            ~(truthy(labels, conjunct.key) \/ isEmptyString(labels, conjunct.key))
      [] conjunct.operator = "in" ->
            /\ truthy(labels, conjunct.key) \/ isEmptyString(labels, conjunct.key)
            /\ someValueEquals(labels[conjunct.key], conjunct.values)
      [] conjunct.operator = "not in" ->
            ~(truthy(labels, conjunct.key)
              /\ someValueEquals(labels[conjunct.key], conjunct.values))
      [] OTHER -> TRUE

\* one turn of the switch in matches: FALSE where the code returns false
conjunctPasses(conjunct, labels) ==
    CASE conjunct.operator = "exists" ->
            ~(~truthy(labels, conjunct.key) /\ ~isEmptyString(labels, conjunct.key))
      [] conjunct.operator = "does not exist" ->
            ~(truthy(labels, conjunct.key) \/ isEmptyString(labels, conjunct.key))
      [] conjunct.operator = "in" ->
            /\ truthy(labels, conjunct.key) \/ isEmptyString(labels, conjunct.key)
            /\ someValueEquals(labels[conjunct.key], conjunct.values)
      [] conjunct.operator = "not in" ->
            ~(truthy(labels, conjunct.key)
              /\ someValueEquals(labels[conjunct.key], conjunct.values))
      [] OTHER -> TRUE

\* resource.labels || {}, replaced by resource.metadata.labels || {}
labelsOf(resource) ==
    IF resource.hasMetadata THEN resource.metadataLabels ELSE resource.labels

\* matches that returns true at the first conjunct that passes
matchesAny(selector, resource) ==
    IF resource.isNull THEN FALSE
    ELSE IF isEmpty(selector) THEN selector.emptySelectsAll
    ELSE \E id \in DOMAIN selector.conjuncts :
            conjunctPasses(selector.conjuncts[id], labelsOf(resource))

\* matches without the isEmpty test
matchesNoEmptyTest(selector, resource) ==
    IF resource.isNull THEN FALSE
    ELSE \A id \in DOMAIN selector.conjuncts :
            conjunctPasses(selector.conjuncts[id], labelsOf(resource))

matches(selector, resource) ==
    IF resource.isNull THEN FALSE
    ELSE IF isEmpty(selector) THEN selector.emptySelectsAll
    ELSE \A id \in DOMAIN selector.conjuncts :
            conjunctPasses(selector.conjuncts[id], labelsOf(resource))

(* ---------------------------- covers ---------------------------------- *)
\* hasConjunct that looks the conjunct up by its string
hasConjunctByString(selector, conjunct) ==
    getStringForConjunct(conjunct) \in DOMAIN selector.conjuncts

hasConjunct(selector, conjunct) ==
    getIdForConjunct(conjunct) \in DOMAIN selector.conjuncts

\* the ids of the stored conjuncts with that operator and key
findConjunctsMatching(selector, operator, key) ==
    {id \in DOMAIN selector.conjuncts :
        /\ selector.conjuncts[id].operator = operator
        /\ selector.conjuncts[id].key = key}

\* _.intersection(a, b): the unique values of a that b includes, in a's order
RECURSIVE uniqueIn(_, _, _)
uniqueIn(a, b, seen) ==
    IF Len(a) = 0 THEN <<>>
    ELSE IF a[1] \notin seen /\ (\E j \in 1..Len(b) : b[j] = a[1])
         THEN <<a[1]>> \o uniqueIn(Tail(a), b, seen \cup {a[1]})
         ELSE uniqueIn(Tail(a), b, seen)

intersection(a, b) == uniqueIn(a, b, {})

\* conjunctCovered whose "in" case compares the lengths as "not in" does
conjunctCoveredInAsNotIn(conjunct, selector) ==
    IF hasConjunct(selector, conjunct) THEN TRUE
    ELSE CASE conjunct.operator = "exists" ->
                findConjunctsMatching(selector, "in", conjunct.key) # {}
           [] conjunct.operator = "does not exist" -> FALSE
           [] conjunct.operator \in {"in", "not in"} ->
                LET found == findConjunctsMatching(selector, conjunct.operator, conjunct.key)
                IN  IF found = {} THEN FALSE
                    ELSE \A id \in found :
                            Len(conjunct.values)
                              = Len(intersection(selector.conjuncts[id].values,
                                                 conjunct.values))
           [] OTHER -> TRUE

\* the callback of _.every in covers, for one conjunct of this selector
conjunctCovered(conjunct, selector) ==
    IF hasConjunct(selector, conjunct) THEN TRUE
    ELSE CASE conjunct.operator = "exists" ->
                findConjunctsMatching(selector, "in", conjunct.key) # {}
           [] conjunct.operator = "does not exist" -> FALSE
           [] conjunct.operator = "in" ->
                LET inConjuncts == findConjunctsMatching(selector, "in", conjunct.key)
                IN  IF inConjuncts = {} THEN FALSE
                    ELSE \A id \in inConjuncts :
                            LET inConjunct == selector.conjuncts[id]
                            IN  Len(inConjunct.values)
                                  = Len(intersection(inConjunct.values, conjunct.values))
           [] conjunct.operator = "not in" ->
                LET notInConjuncts == findConjunctsMatching(selector, "not in", conjunct.key)
                IN  IF notInConjuncts = {} THEN FALSE
                    ELSE \A id \in notInConjuncts :
                            LET notInConjunct == selector.conjuncts[id]
                            IN  Len(conjunct.values)
                                  = Len(intersection(notInConjunct.values, conjunct.values))
           [] OTHER -> TRUE

\* covers without the isEmpty test
coversNoEmptyTest(self, selector) ==
    \A id \in DOMAIN self.conjuncts : conjunctCovered(self.conjuncts[id], selector)

covers(self, selector) ==
    IF isEmpty(self) THEN FALSE
    ELSE \A id \in DOMAIN self.conjuncts : conjunctCovered(self.conjuncts[id], selector)

(* ------------------------ export and parsing -------------------------- *)
\* the ids of _conjuncts in the order for-in visits them
RECURSIVE idsInOrder(_)
idsInOrder(ids) ==
    IF ids = {} THEN <<>>
    ELSE LET id == CHOOSE i \in ids : TRUE
         IN  <<id>> \o idsInOrder(ids \ {id})

\* the expression pushed for one conjunct; JSON.stringify drops a values
\* field that is undefined
expressionOf(conjunct) ==
    [key |-> conjunct.key,
     operator |-> REVERSE_OPERATOR_MAP[conjunct.operator],
     values |-> conjunct.values,
     hasValues |-> conjunct.hasValues]

\* result.matchExpressions of exportJSON
exportJSON(selector) ==
    LET order == idsInOrder(DOMAIN selector.conjuncts)
    IN  [i \in 1..Len(order) |-> expressionOf(selector.conjuncts[order[i]])]

\* the forEach over selector.matchExpressions in the constructor
RECURSIVE addExpressions(_, _)
addExpressions(conjuncts, expressions) ==
    IF Len(expressions) = 0 THEN conjuncts
    ELSE addExpressions(
            addConjunct(conjuncts,
                [key |-> expressions[1].key,
                 operator |-> OPERATOR_MAP[expressions[1].operator],
                 values |-> expressions[1].values,
                 hasValues |-> expressions[1].hasValues]),
            Tail(expressions))

\* the forEach over selector.matchLabels in the constructor
RECURSIVE addMatchLabels(_, _)
addMatchLabels(conjuncts, matchLabels) ==
    IF DOMAIN matchLabels = {} THEN conjuncts
    ELSE LET key == CHOOSE k \in DOMAIN matchLabels : TRUE
         IN  addMatchLabels(
                addConjunct(conjuncts,
                    [key |-> key, operator |-> "in",
                     values |-> <<matchLabels[key]>>, hasValues |-> TRUE]),
                [k \in DOMAIN matchLabels \ {key} |-> matchLabels[k]])

\* the forEach over a key: value map; details is a string or null
RECURSIVE addEqualityMap(_, _)
addEqualityMap(conjuncts, map) ==
    IF DOMAIN map = {} THEN conjuncts
    ELSE LET key == CHOOSE k \in DOMAIN map : TRUE
             details == map[key]
             args == IF ~details.isNull
                     THEN [key |-> key, operator |-> "in",
                           values |-> <<details.string>>, hasValues |-> TRUE]
                     ELSE [key |-> key, operator |-> "exists",
                           values |-> <<>>, hasValues |-> TRUE]
         IN  addEqualityMap(addConjunct(conjuncts, args),
                            [k \in DOMAIN map \ {key} |-> map[k]])

NoConjuncts == [i \in {} |-> 0]

\* new LabelSelector(selector, emptySelectsAll)
LabelSelector(selector, emptySelectsAll) ==
    [emptySelectsAll |-> emptySelectsAll,
     conjuncts |->
        IF ~selector.given THEN NoConjuncts
        ELSE IF selector.hasMatchLabels \/ selector.hasMatchExpressions
        THEN addExpressions(addMatchLabels(NoConjuncts, selector.matchLabels),
                            selector.matchExpressions)
        ELSE addEqualityMap(NoConjuncts, selector.map)]

(* --------------------- constructor inputs ----------------------------- *)
NoDetails == [x \in {} |-> [isNull |-> TRUE, string |-> ""]]

\* no selector argument
NoSelector ==
    [given |-> FALSE, hasMatchLabels |-> FALSE, matchLabels |-> EmptyMap,
     hasMatchExpressions |-> FALSE, matchExpressions |-> <<>>, map |-> NoDetails]

\* {key: value-or-null}
MapSelectors ==
    {[given |-> TRUE, hasMatchLabels |-> FALSE, matchLabels |-> EmptyMap,
      hasMatchExpressions |-> FALSE, matchExpressions |-> <<>>, map |-> m] :
        m \in UNION {[D -> {[isNull |-> TRUE, string |-> ""]}
                           \cup {[isNull |-> FALSE, string |-> v] : v \in Values}] :
                     D \in SUBSET Keys}}

Expressions == {expressionOf(newConjunct(a)) : a \in ConjunctArgs}

\* {matchExpressions: [...]} as JSON.parse returns it
ExpressionsSelector(expressions) ==
    [given |-> TRUE, hasMatchLabels |-> FALSE, matchLabels |-> EmptyMap,
     hasMatchExpressions |-> TRUE, matchExpressions |-> expressions, map |-> NoDetails]

\* {matchLabels: {...}} and {matchLabels: {...}, matchExpressions: [...]}
MatchLabelsSelectors ==
    {[given |-> TRUE, hasMatchLabels |-> TRUE, matchLabels |-> ml,
      hasMatchExpressions |-> he, matchExpressions |-> me, map |-> NoDetails] :
        ml \in UNION {[D -> Values] : D \in SUBSET Keys},
        he \in BOOLEAN,
        me \in {<<>>} \cup {<<e>> : e \in Expressions}}

SelectorInputs ==
    {NoSelector} \cup MapSelectors \cup MatchLabelsSelectors
    \cup {ExpressionsSelector(me) : me \in {<<>>} \cup {<<e>> : e \in Expressions}}

(* ---------------------------- the state ------------------------------- *)
VARIABLES
    this,   \* the selector under test: [conjuncts, emptySelectsAll]
    other,  \* the selector handed to covers
    last    \* the last call made and what it returned

vars == <<this, other, last>>

size(selector) == Cardinality(DOMAIN selector.conjuncts)

\* an id no conjunct has: removeConjunct of an entry that is absent
AbsentId == "no-such-id"

(* ------------------- the life of one selector ------------------------- *)
Init ==
    /\ \E selector \in SelectorInputs, emptySelectsAll \in BOOLEAN :
          this = LabelSelector(selector, emptySelectsAll)
    /\ size(this) <= MaxConjuncts
    /\ other = LabelSelector(NoSelector, FALSE)
    /\ last = [name |-> "new"]

AddConjunct(args) ==
    /\ \/ size(this) < MaxConjuncts
       \/ getIdForConjunct(args) \in DOMAIN this.conjuncts
    /\ this' = [this EXCEPT !.conjuncts = addConjunct(this.conjuncts, args)]
    /\ last' = [name |-> "addConjunct", returned |-> newConjunct(args),
                replaced |-> getIdForConjunct(args) \in DOMAIN this.conjuncts]
    /\ UNCHANGED other

\* removeConjunct(conjunct) with a conjunct addConjunct returned, or with an id
RemoveConjunct(id) ==
    /\ this' = [this EXCEPT !.conjuncts = removeConjunct(this.conjuncts, id)]
    /\ last' = [name |-> "removeConjunct", id |-> id,
                removed |-> {this.conjuncts[i] : i \in DOMAIN this.conjuncts \cap {id}}]
    /\ UNCHANGED other

ClearConjuncts ==
    /\ this' = [this EXCEPT !.conjuncts = NoConjuncts]
    /\ last' = [name |-> "clearConjuncts"]
    /\ UNCHANGED other

Matches(resource) ==
    /\ last' = [name |-> "matches", resource |-> resource,
                result |-> matches(this, resource)]
    /\ UNCHANGED <<this, other>>

\* this.covers(this)
CoversItself ==
    /\ last' = [name |-> "covers", result |-> covers(this, this)]
    /\ UNCHANGED <<this, other>>

\* new LabelSelector(JSON.parse(this.exportJSON()), emptySelectsAll)
ExportJSON ==
    /\ last' = [name |-> "exportJSON",
                exported |-> exportJSON(this),
                parsed |-> LabelSelector(ExpressionsSelector(exportJSON(this)),
                                         this.emptySelectsAll)]
    /\ UNCHANGED <<this, other>>

Next ==
    \/ \E args \in ConjunctArgs : AddConjunct(args)
    \/ \E id \in DOMAIN this.conjuncts \cup {AbsentId} : RemoveConjunct(id)
    \/ ClearConjuncts
    \/ \E resource \in Resources : Matches(resource)
    \/ CoversItself
    \/ ExportJSON

Spec == Init /\ [][Next]_vars

(* ------------- covers and matches on two selectors -------------------- *)
\* the selectors built from at most maxConjuncts expressions
SelectorsUpTo(maxConjuncts, maxLen) ==
    {LabelSelector(ExpressionsSelector(me), emptySelectsAll) :
        me \in SeqsUpTo({expressionOf(newConjunct(a)) : a \in ConjunctArgsUpTo(maxLen)},
                        maxConjuncts),
        emptySelectsAll \in BOOLEAN}

InitCovers ==
    /\ this \in SelectorsUpTo(MaxCoverConjuncts, MaxLen)
    /\ other \in SelectorsUpTo(MaxCoverConjuncts, MaxLen)
    /\ last = [name |-> "new"]

\* this.covers(other), other.matches(resource), this.matches(resource)
CoversAndMatches(resource) ==
    /\ last.name = "new"
    /\ last' = [name |-> "coversAndMatches",
                covers |-> covers(this, other),
                resource |-> resource,
                otherMatches |-> matches(other, resource),
                thisMatches |-> matches(this, resource)]
    /\ UNCHANGED <<this, other>>

NextCovers == \E resource \in Resources : CoversAndMatches(resource)

SpecCovers == InitCovers /\ [][NextCovers]_vars

(* ------------------ covers, conjunct by conjunct ---------------------- *)
InitSubsume ==
    /\ this \in SelectorsUpTo(MaxSubsumeConjuncts, MaxSubsumeLen)
    /\ other \in SelectorsUpTo(MaxSubsumeConjuncts, MaxSubsumeLen)
    /\ last = [name |-> "new"]

\* this.covers(other), with what the callback of _.every answers for each
\* conjunct of this
Covers ==
    /\ last.name = "new"
    /\ last' = [name |-> "covers",
                result |-> covers(this, other),
                covered |-> [id \in DOMAIN this.conjuncts |->
                                conjunctCovered(this.conjuncts[id], other)]]
    /\ UNCHANGED <<this, other>>

NextSubsume == Covers

SpecSubsume == InitSubsume /\ [][NextSubsume]_vars

(* ======================= properties of the code ======================= *)
\* the values of a list, as a set
valueSet(values) == {values[i] : i \in 1..Len(values)}

\* (key, operator, values) of a conjunct
tuple(conjunct) ==
    [key |-> conjunct.key, operator |-> conjunct.operator,
     values |-> conjunct.values, hasValues |-> conjunct.hasValues]

tuples(selector) == {tuple(selector.conjuncts[id]) : id \in DOMAIN selector.conjuncts}

\* distinct (key, operator, values) among the conjuncts of a and b have
\* distinct ids
DistinctIds(a, b) ==
    \A s \in tuples(a) \cup tuples(b), t \in tuples(a) \cup tuples(b) :
        getIdForConjunct(s) = getIdForConjunct(t) => s = t

\* the selector holds exactly one conjunct, of that operator on that key
holdsOnly(selector, operator, key) ==
    /\ size(selector) = 1
    /\ \A id \in DOMAIN selector.conjuncts :
          /\ selector.conjuncts[id].operator = operator
          /\ selector.conjuncts[id].key = key

C2_RemovalKeepsMatch ==
    [][last'.name = "removeConjunct" =>
        \A c \in last'.removed, resource \in Resources :
            (matches(this, resource) /\ conjunctPasses(c, labelsOf(resource)))
                => matches(this', resource)]_vars

(* C2 amended: after removeConjunct of a conjunct that a resource's labels
   satisfy, a resource that matched before the removal still matches,
   provided a conjunct is left or emptySelectsAll is true. *)
C2_RemovalKeepsMatchUnlessEmptied ==
    [][last'.name = "removeConjunct" =>
        \A c \in last'.removed, resource \in Resources :
            (/\ matches(this, resource)
             /\ conjunctPasses(c, labelsOf(resource))
             /\ (~isEmpty(this') \/ this.emptySelectsAll))
                => matches(this', resource)]_vars

\* a satisfied conjunct was removed, another is left, and the resource matches
C2_Witness ==
    /\ last.name = "removeConjunct"
    /\ ~isEmpty(this)
    /\ \E c \in last.removed, resource \in Resources :
          /\ ~resource.isNull
          /\ conjunctPasses(c, labelsOf(resource))
          /\ matches(this, resource)

(* C3: a conjunct In(K,V) of this that other does not hold by id is covered
   exactly when other holds an In on K and the values W of every In(K,W) of
   other are all among V. *)
C3_InSubsumption ==
    last.name = "covers" =>
        \A id \in DOMAIN this.conjuncts :
            LET conjunct == this.conjuncts[id]
                inConjuncts == findConjunctsMatching(other, "in", conjunct.key)
            IN  (conjunct.operator = "in" /\ ~hasConjunct(other, conjunct)) =>
                    (last.covered[id] <=>
                        /\ inConjuncts # {}
                        /\ \A j \in inConjuncts :
                              valueSet(other.conjuncts[j].values)
                                  \subseteq valueSet(conjunct.values))

(* C4: a conjunct NotIn(K,V) of this that other does not hold by id is
   covered exactly when other holds a NotIn on K and every NotIn(K,W) of
   other has all of V among W. *)
C4_NotInSubsumption ==
    last.name = "covers" =>
        \A id \in DOMAIN this.conjuncts :
            LET conjunct == this.conjuncts[id]
                notInConjuncts == findConjunctsMatching(other, "not in", conjunct.key)
            IN  (conjunct.operator = "not in" /\ ~hasConjunct(other, conjunct)) =>
                    (last.covered[id] <=>
                        /\ notInConjuncts # {}
                        /\ \A j \in notInConjuncts :
                              valueSet(conjunct.values)
                                  \subseteq valueSet(other.conjuncts[j].values))

(* C5: matches on a selector without conjuncts returns emptySelectsAll for
   every resource object, and no step changes emptySelectsAll. *)
C5_EmptySetPolicy ==
    /\ []((/\ last.name = "matches"
            /\ isEmpty(this)
            /\ ~last.resource.isNull) => last.result = this.emptySelectsAll)
    /\ [][this'.emptySelectsAll = this.emptySelectsAll]_vars

\* matches returned true for a resource on a selector without conjuncts
C5_Witness ==
    /\ last.name = "matches"
    /\ isEmpty(this)
    /\ ~last.resource.isNull
    /\ last.result
    /\ this.emptySelectsAll

(* C6: covers of a selector without conjuncts is false, whatever the other
   selector holds. *)
C6_EmptyCoversNothing ==
    (last.name = "coversAndMatches" /\ isEmpty(this)) => ~last.covers

\* covers was called on an empty selector, with an empty other selector
C6_Witness ==
    /\ last.name = "coversAndMatches"
    /\ isEmpty(this)
    /\ isEmpty(other)
    /\ ~last.covers

(* C7: addConjunct stores the conjunct under its id, leaves the entries of
   other ids as they were, does not add an entry when the id was present,
   and a second call with the same arguments changes nothing. *)
C7_AddIsIdempotentUpsert ==
    [][last'.name = "addConjunct" =>
        LET id == last'.returned.id
        IN  /\ DOMAIN this'.conjuncts = DOMAIN this.conjuncts \cup {id}
            /\ this'.conjuncts[id] = last'.returned
            /\ tuple(this'.conjuncts[id]) = tuple(last'.returned)
            /\ \A i \in DOMAIN this.conjuncts \ {id} :
                  this'.conjuncts[i] = this.conjuncts[i]
            /\ (id \in DOMAIN this.conjuncts => size(this') = size(this))
            /\ (last.name = "addConjunct" /\ last.returned = last'.returned
                    => this' = this)]_vars

\* addConjunct was called with an id the selector already held, beside
\* another entry
C7_Witness ==
    /\ last.name = "addConjunct"
    /\ last.replaced
    /\ size(this) >= 2

(* C8: the selector constructed from the parsed output of exportJSON holds
   the same (key, operator, values) as the exported one. *)
C8_ExportRoundTrip ==
    last.name = "exportJSON" => tuples(last.parsed) = tuples(this)

\* a selector of two conjuncts, one of them not in, was exported and parsed
C8_Witness ==
    /\ last.name = "exportJSON"
    /\ Len(last.exported) >= 2
    /\ \E i \in 1..Len(last.exported) : last.exported[i].operator = "NotIn"

(* C9: on a resource object, exactly one of the selectors {Exists(K)} and
   {DoesNotExist(K)} matches. *)
C9_ExistsComplement ==
    \A key \in Keys :
        (/\ last.name = "coversAndMatches"
         /\ ~last.resource.isNull
         /\ holdsOnly(this, "exists", key)
         /\ holdsOnly(other, "does not exist", key))
            => (last.thisMatches <=> ~last.otherMatches)

\* Exists(K) matched a resource whose label K is the empty string
C9_Witness ==
    \E key \in Keys :
        /\ last.name = "coversAndMatches"
        /\ ~last.resource.isNull
        /\ holdsOnly(this, "exists", key)
        /\ holdsOnly(other, "does not exist", key)
        /\ key \in DOMAIN labelsOf(last.resource)
        /\ labelsOf(last.resource)[key] = ""
        /\ last.thisMatches

(* C10: a selector that holds a conjunct covers itself. *)
C10_CoversIsReflexive ==
    (last.name = "covers" /\ ~isEmpty(this)) => last.result

\* covers(this) returned true on a selector of two conjuncts
C10_Witness ==
    /\ last.name = "covers"
    /\ size(this) >= 2
    /\ last.result

====
